---- MODULE Spec2Model ----
(***************************************************************************)
(* mmarinus: a safe wrapper around mmap()/munmap()/mprotect().             *)
(*                                                                         *)
(* The model follows src/src/map.rs, src/src/builder.rs, src/src/perms.rs  *)
(* and src/src/error.rs.  The operating system is an explicit component:   *)
(* a page table `os` on which the three primitives act.  Addresses and     *)
(* lengths are bytes; the kernel works on whole pages of PageSize bytes.   *)
(* The machine word (usize) is scaled down to WordMod values, the user     *)
(* address space being its lower half, so that `addr + offset` can exceed  *)
(* the word exactly as it can on the real machine.                         *)
(***************************************************************************)
EXTENDS Integers, FiniteSets, Sequences, Bags, TLC

\* ---------------------------------------------------------------- bounds
PageSize == 2        \* value returned by sysconf(_SC_PAGESIZE)
NumPages == 3        \* pages of user address space; page 0 holds NULL
MaxMaps  == 2        \* Map values the caller keeps in variables at a time

AddrLimit == NumPages * PageSize      \* first byte past the user space
WordMod   == 2 * AddrLimit            \* usize::MAX + 1
Word      == 0 .. (WordMod - 1)       \* every usize value
Pages     == 0 .. (NumPages - 1)

Min(S) == CHOOSE x \in S : \A y \in S : x <= y

\* ------------------------------------------------------ perms.rs, map.rs
PROT_NONE  == 0
PROT_READ  == 1
PROT_WRITE == 2
PROT_EXEC  == 4

Known == {"None", "Read", "Write", "Execute", "ReadWrite", "ReadExecute",
          "WriteExecute", "ReadWriteExecute"}

Readable   == {"Read", "ReadWrite", "ReadExecute", "ReadWriteExecute"}
Writeable  == {"Write", "ReadWrite", "WriteExecute", "ReadWriteExecute"}
Executable == {"Execute", "ReadExecute", "WriteExecute", "ReadWriteExecute"}

\* Known::VALUE, the constant each perm! entry is given
VALUE(t) ==
    CASE t = "None"             -> PROT_NONE
      [] t = "Read"             -> PROT_READ
      [] t = "Write"            -> PROT_WRITE
      [] t = "Execute"          -> PROT_EXEC
      [] t = "ReadWrite"        -> PROT_READ + PROT_WRITE
      [] t = "ReadExecute"      -> PROT_READ + PROT_EXEC
      [] t = "WriteExecute"     -> PROT_WRITE + PROT_EXEC
      [] t = "ReadWriteExecute" -> PROT_READ + PROT_WRITE + PROT_EXEC

\* Type::perms: a Known selector gives its VALUE, Unknown(raw) gives raw
perms(p) == IF p.tag = "Unknown" THEN p.raw ELSE VALUE(p.tag)

\* Kind tags and the Safe marker
Kinds == {"Private", "Shared"}
\* Safe implemented for both kinds
Safe_Both == {"Private", "Shared"}
Safe  == {"Private"}

\* Flag words are i32 bit patterns, kept as the set of their set bits.
MAP_SHARED          == {0}
MAP_PRIVATE         == {1}
MAP_FIXED           == {4}
MAP_ANONYMOUS       == {5}
MAP_HUGETLB         == {18}
MAP_FIXED_NOREPLACE == {20}
MAP_HUGE_MASK       == 0 .. 5
MAP_HUGE_SHIFT      == 26

kind(k) == IF k = "Private" THEN MAP_PRIVATE ELSE MAP_SHARED

RECURSIVE Pow2(_)
Pow2(n) == IF n = 0 THEN 1 ELSE 2 * Pow2(n - 1)
\* bit pattern of a u8 widened to i32
Bits(x) == {b \in 0 .. 7 : (x \div Pow2(b)) % 2 = 1}
\* x << n on i32: bits shifted past bit 31 are lost
Shl(bits, n) == {b + n : b \in {c \in bits : c + n <= 31}}

\* ------------------------------------------------------------ input sets
SizeInputs   == {1, 2 * PageSize}
AddrInputs   == {0, PageSize}
PermInputs   == {[tag |-> "ReadWrite", raw |-> 0],
                 [tag |-> "Unknown", raw |-> PROT_READ]}
SourceInputs == {[fd |-> 3, offset |-> PageSize]}
HugeInputs   == {0, 63, 64}
\* files given to Map::load: whether open succeeds, and the length (u64) that
\* metadata reports; WordMod is a length that does not fit usize
FileInputs   == {[found |-> f, len |-> n] : f \in BOOLEAN, n \in {0, 1, WordMod}}
LoadPerms    == {[tag |-> "Read", raw |-> 0], [tag |-> "Write", raw |-> 0]}
\* split offsets: up to past the largest Map, and the top of the word
SplitOffsets == {o \in Word : o <= 2 * PageSize + 1 \/ o >= WordMod - 2}
\* the split offset used next to Builder::onto: the first page boundary
UnsafeOffsets == {PageSize}
\* split_at addresses: page boundaries and the byte after each, the last word
SplitAddrs   == {a \in Word : (a <= AddrLimit /\ a % PageSize <= 1) \/ a = WordMod - 1}

\* ------------------------------------------------------------------ state
VARIABLES
    maps,       \* the Map values the caller holds in variables (a bag)
    bld,        \* the Builder the caller holds (stage "None": no builder)
    error,      \* the Error<M> value the caller holds (some = FALSE: none)
    os,         \* the kernel's page table
    last,       \* the last call: arguments, result, OS primitives invoked
    ontoUsed    \* the unsafe fn Builder::onto has been called

vars == <<maps, bld, error, os, last, ontoUsed>>

\* the unit value (), in the shape of a Map so that payloads are uniform
Unit == [addr |-> 0, size |-> 0, perms |-> "()", kind |-> "()"]

\* Map { addr, size, data: PhantomData<(T, K)> }
Map(a, s, t, k) == [addr |-> a, size |-> s, perms |-> t, kind |-> k]

NoAddress == [tag |-> "None", a |-> 0]
NoBuilder == [stage |-> "None", prev |-> Unit, size |-> 0, addr |-> NoAddress,
              fd |-> 0, offset |-> 0, huge |-> -1, kind |-> "Private"]
NoError   == [some |-> FALSE, map |-> Unit, err |-> "-"]

\* an invocation of an OS primitive with its arguments.  found: whether every
\* page of the range was mapped when the primitive was invoked.
NoCall == <<>>
Call(f, a, s, p, fl, fd, off, found) ==
    [fn |-> f, addr |-> a, size |-> s, prot |-> p, flags |-> fl,
     fd |-> fd, offset |-> off, found |-> found]

\* the record of a call: the value it consumed, its argument, its result
\* (l, r: the Maps returned, or in l the Map carried back by an Error), and
\* the primitives it invoked.  b and perm are the Builder and the permission
\* selector a finalize or reprotect was given.
Last(op, self, arg, res, l, r, e, calls) ==
    [op |-> op, self |-> self, arg |-> arg, res |-> res, l |-> l, r |-> r,
     err |-> e, calls |-> calls, b |-> NoBuilder, perm |-> "-"]

\* a call that invokes no primitive and returns no Result leaves no record
Idle == Last("-", Unit, 0, "-", Unit, Unit, "-", NoCall)

\* --------------------------------------------------- the operating system
\* the page table: the pages that are mapped
FreePage == FALSE

\* pages the kernel touches for the byte range [addr, addr + size)
PagesOf(addr, size) ==
    IF size = 0 THEN {}
    ELSE {p \in Pages : p * PageSize < addr + size /\ (p + 1) * PageSize > addr}

AllMapped(k, addr, size) == \A p \in PagesOf(addr, size) : k[p]

\* munmap(2): EINVAL for a zero length or an unaligned address, otherwise
\* every page of the range is unmapped
munmap(k, addr, size) ==
    IF size = 0 \/ addr % PageSize # 0 THEN k
    ELSE [p \in Pages |-> IF p \in PagesOf(addr, size) THEN FALSE ELSE k[p]]

\* addresses at which mmap(2) may place a mapping of `size` bytes
Placements(k, addr, size, flags) ==
    LET fits(s) == /\ s % PageSize = 0
                   /\ s >= PageSize
                   /\ s + size <= AddrLimit
        free(s) == \A p \in PagesOf(s, size) : ~k[p]
        all     == {s \in 0 .. AddrLimit : fits(s)}
    IN  IF size = 0 THEN {}
        ELSE IF MAP_FIXED \subseteq flags THEN {s \in all : s = addr}
        ELSE IF MAP_FIXED_NOREPLACE \subseteq flags
             THEN {s \in all : s = addr /\ free(s)}
        ELSE {s \in all : free(s)}

MAP_FAILED == -1

\* mmap(2): every result the kernel may give: MAP_FAILED with the table
\* unchanged, or an address with the pages of the range (re)mapped
mmap(k, addr, size, prot, flags, fd, offset) ==
    {[ret |-> MAP_FAILED, os |-> k]} \cup
    {[ret |-> s,
      os  |-> [p \in Pages |->
                 IF p \in PagesOf(s, size) THEN TRUE ELSE k[p]]] : s \in Placements(k, addr, size, flags)}

\* mprotect(2): every result: -1, or 0 when every page of the range is mapped
\* (ENOMEM otherwise).  The protection of a page is not part of the table:
\* no operation of the library reads it back.
mprotect(k, addr, size, prot) ==
    {[ret |-> -1, os |-> k]} \cup
    IF addr % PageSize = 0 /\ AllMapped(k, addr, size)
    THEN {[ret |-> 0, os |-> k]}
    ELSE {}

\* ------------------------------------------------- ownership of a payload
\* An effect e = [os, calls] is the page table together with the primitives
\* invoked so far by the running call.
Effect(k) == [os |-> k, calls |-> NoCall]

\* drop without its munmap call
drop_NoMunmap(e, m) == e

\* drop without the test self.size > 0
drop_Unconditional(e, m) ==
    [os    |-> munmap(e.os, m.addr, m.size),
     calls |-> Append(e.calls, Call("munmap", m.addr, m.size, 0, {}, 0, 0,
                                    AllMapped(e.os, m.addr, m.size)))]

\* Drop for Map: munmap is called when size > 0.  Dropping () does nothing.
drop(e, m) ==
    IF m.size > 0
    THEN [os    |-> munmap(e.os, m.addr, m.size),
          calls |-> Append(e.calls, Call("munmap", m.addr, m.size, 0, {}, 0, 0,
                                         AllMapped(e.os, m.addr, m.size)))]
    ELSE e

\* forget left out: the value is dropped at the end of the scope
forget_Dropped(e, m) == drop(e, m)

\* std::mem::forget: the value is gone and its Drop does not run
forget(e, m) == e

\* ------------------------------------------------------ pure computations
\* usize::try_from(sysconf(_SC_PAGESIZE)) is Ok for a non-negative value
psizeOk == PageSize >= 0

\* Map::split.  `self.addr + offset` is evaluated before the bounds check:
\* past the word it panics where overflow checks are compiled in and wraps
\* where they are not, so both results are possible.  The panic unwinds out
\* of split and drops self.
\* split with the bounds check offset < self.size
splitBody_StrictBound(k, self, offset, addr) ==
    IF psizeOk /\ offset < self.size /\ addr % PageSize = 0
    THEN [res |-> "ok",
          l   |-> Map(self.addr, offset, self.perms, self.kind),
          r   |-> Map(addr, self.size - offset, self.perms, self.kind),
          err |-> "-",
          eff |-> forget(Effect(k), self)]
    ELSE [res |-> "err", l |-> self, r |-> Unit, err |-> "EINVAL",
          eff |-> Effect(k)]

\* split without the test addr % psize == 0
splitBody_NoAlignCheck(k, self, offset, addr) ==
    IF psizeOk /\ offset <= self.size
    THEN [res |-> "ok",
          l   |-> Map(self.addr, offset, self.perms, self.kind),
          r   |-> Map(addr, self.size - offset, self.perms, self.kind),
          err |-> "-",
          eff |-> forget(Effect(k), self)]
    ELSE [res |-> "err", l |-> self, r |-> Unit, err |-> "EINVAL",
          eff |-> Effect(k)]

\* split with the right piece keeping the whole length
splitBody_FullRight(k, self, offset, addr) ==
    IF psizeOk /\ offset <= self.size /\ addr % PageSize = 0
    THEN [res |-> "ok",
          l   |-> Map(self.addr, offset, self.perms, self.kind),
          r   |-> Map(addr, self.size, self.perms, self.kind),
          err |-> "-",
          eff |-> forget(Effect(k), self)]
    ELSE [res |-> "err", l |-> self, r |-> Unit, err |-> "EINVAL",
          eff |-> Effect(k)]

\* split with the right piece starting at self.addr
splitBody_RightAtBase(k, self, offset, addr) ==
    IF psizeOk /\ offset <= self.size /\ addr % PageSize = 0
    THEN [res |-> "ok",
          l   |-> Map(self.addr, offset, self.perms, self.kind),
          r   |-> Map(self.addr, self.size - offset, self.perms, self.kind),
          err |-> "-",
          eff |-> forget(Effect(k), self)]
    ELSE [res |-> "err", l |-> self, r |-> Unit, err |-> "EINVAL",
          eff |-> Effect(k)]

splitBody(k, self, offset, addr) ==
    IF psizeOk /\ offset <= self.size /\ addr % PageSize = 0
    THEN [res |-> "ok",
          l   |-> Map(self.addr, offset, self.perms, self.kind),
          r   |-> Map(addr, self.size - offset, self.perms, self.kind),
          err |-> "-",
          eff |-> forget(Effect(k), self)]
    ELSE [res |-> "err", l |-> self, r |-> Unit, err |-> "EINVAL",
          eff |-> Effect(k)]

split(k, self, offset) ==
    IF self.addr + offset >= WordMod
    THEN {[res |-> "panic", l |-> Unit, r |-> Unit, err |-> "-",
           eff |-> drop(Effect(k), self)],
          splitBody(k, self, offset, (self.addr + offset) % WordMod)}
    ELSE {splitBody(k, self, offset, self.addr + offset)}

\* split_at giving offset 0 for an address before the Map
split_at_BeforeIsZero(k, self, addr) ==
    LET offset == IF addr >= self.addr THEN addr - self.addr ELSE 0
    IN  split(k, self, offset)

\* split_at with the comparison addr > self.addr
split_at_Strict(k, self, addr) ==
    LET offset == IF addr > self.addr THEN addr - self.addr ELSE self.size
    IN  split(k, self, offset)

\* Map::split_at
split_at(k, self, addr) ==
    LET offset == IF addr >= self.addr THEN addr - self.addr ELSE self.size
    IN  split(k, self, offset)

\* remap entering the Destination stage with placement anywhere
remap_Anywhere(self) ==
    [NoBuilder EXCEPT !.stage = "Destination",
                      !.addr  = NoAddress,
                      !.size  = self.size,
                      !.prev  = self]

\* Map::remap: the Destination stage that carries self
remap(self) ==
    [NoBuilder EXCEPT !.stage = "Destination",
                      !.addr  = [tag |-> "Onto", a |-> self.addr],
                      !.size  = self.size,
                      !.prev  = self]

\* the conversion with forget left out: value is dropped at the end of the scope
from_Dropped(k, value) ==
    [map |-> Map(value.addr, value.size, "Unknown", value.kind),
     eff |-> drop(Effect(k), value)]

\* From<Map<T, K>> for Map<perms::Unknown, K>
from(k, value) ==
    [map |-> Map(value.addr, value.size, "Unknown", value.kind),
     eff |-> forget(Effect(k), value)]

\* the conversion that leaks the Map the Error carries
io_error_from_Forgets(k, value) ==
    [err |-> value.err, eff |-> forget(Effect(k), value.map)]

\* From<Error<M>> for std::io::Error: value.err is moved out and returned,
\* and the rest of value, its field map, is dropped at the end of the scope
io_error_from(k, value) ==
    [err |-> value.err, eff |-> drop(Effect(k), value.map)]

\* reprotect whose failure branch lets self go out of scope
reprotect_DropsOnError(k, self, p) ==
    LET call == Call("mprotect", self.addr, self.size, perms(p), {}, 0, 0,
                     AllMapped(k, self.addr, self.size))
    IN  {IF o.ret # 0
         THEN [res |-> "err", map |-> Unit, err |-> "OS",
               eff |-> drop([os |-> o.os, calls |-> <<call>>], self)]
         ELSE [res |-> "ok",
               map |-> Map(self.addr, self.size, p.tag, self.kind),
               err |-> "-",
               eff |-> forget([os |-> o.os, calls |-> <<call>>], self)]
         : o \in mprotect(k, self.addr, self.size, perms(p))}

\* reprotect returning a Map of the old type
reprotect_KeepsTag(k, self, p) ==
    LET call == Call("mprotect", self.addr, self.size, perms(p), {}, 0, 0,
                     AllMapped(k, self.addr, self.size))
    IN  {IF o.ret # 0
         THEN [res |-> "err", map |-> self, err |-> "OS",
               eff |-> [os |-> o.os, calls |-> <<call>>]]
         ELSE [res |-> "ok", map |-> self, err |-> "-",
               eff |-> forget([os |-> o.os, calls |-> <<call>>], self)]
         : o \in mprotect(k, self.addr, self.size, perms(p))}

\* Map::reprotect: every result, one per result of mprotect
reprotect(k, self, p) ==
    LET call == Call("mprotect", self.addr, self.size, perms(p), {}, 0, 0,
                     AllMapped(k, self.addr, self.size))
    IN  {IF o.ret # 0
         THEN [res |-> "err", map |-> self, err |-> "OS",
               eff |-> [os |-> o.os, calls |-> <<call>>]]
         ELSE [res |-> "ok",
               map |-> Map(self.addr, self.size, p.tag, self.kind),
               err |-> "-",
               eff |-> forget([os |-> o.os, calls |-> <<call>>], self)]
         : o \in mprotect(k, self.addr, self.size, perms(p))}

\* the huge-page match without the arm that tests x & !MAP_HUGE_MASK
hugeOf_NoMaskCheck(h) ==
    IF h # -1
    THEN [ok |-> TRUE, bits |-> Shl(Bits(h), MAP_HUGE_SHIFT) \cup MAP_HUGETLB]
    ELSE [ok |-> TRUE, bits |-> {}]

\* Builder::map, the huge-page match: the flag bits, or not ok
hugeOf(h) ==
    IF h # -1 /\ Bits(h) \ MAP_HUGE_MASK # {} THEN [ok |-> FALSE, bits |-> {}]
    ELSE IF h # -1
         THEN [ok |-> TRUE, bits |-> Shl(Bits(h), MAP_HUGE_SHIFT) \cup MAP_HUGETLB]
         ELSE [ok |-> TRUE, bits |-> {}]

\* the Address match giving MAP_FIXED for Address::At
placeOf_AtReplaces(ad) ==
    CASE ad.tag = "None"                -> [ok |-> TRUE, addr |-> 0, fixed |-> {}]
      [] ad.tag = "At"   /\ ad.a # 0    -> [ok |-> TRUE, addr |-> ad.a,
                                            fixed |-> MAP_FIXED]
      [] ad.tag = "Near" /\ ad.a # 0    -> [ok |-> TRUE, addr |-> ad.a, fixed |-> {}]
      [] ad.tag = "Onto" /\ ad.a # 0    -> [ok |-> TRUE, addr |-> ad.a,
                                            fixed |-> MAP_FIXED]
      [] OTHER                          -> [ok |-> FALSE, addr |-> 0, fixed |-> {}]

\* the Address match without the guards `if a != 0`
placeOf_NoZeroCheck(ad) ==
    CASE ad.tag = "None" -> [ok |-> TRUE, addr |-> 0, fixed |-> {}]
      [] ad.tag = "At"   -> [ok |-> TRUE, addr |-> ad.a, fixed |-> MAP_FIXED_NOREPLACE]
      [] ad.tag = "Near" -> [ok |-> TRUE, addr |-> ad.a, fixed |-> {}]
      [] ad.tag = "Onto" -> [ok |-> TRUE, addr |-> ad.a, fixed |-> MAP_FIXED]

\* Builder::map, the Address match: the address and the fixed flag
placeOf(ad) ==
    CASE ad.tag = "None"                -> [ok |-> TRUE, addr |-> 0, fixed |-> {}]
      [] ad.tag = "At"   /\ ad.a # 0    -> [ok |-> TRUE, addr |-> ad.a,
                                            fixed |-> MAP_FIXED_NOREPLACE]
      [] ad.tag = "Near" /\ ad.a # 0    -> [ok |-> TRUE, addr |-> ad.a, fixed |-> {}]
      [] ad.tag = "Onto" /\ ad.a # 0    -> [ok |-> TRUE, addr |-> ad.a,
                                            fixed |-> MAP_FIXED]
      [] OTHER                          -> [ok |-> FALSE, addr |-> 0, fixed |-> {}]

\* the anon match giving MAP_ANONYMOUS for every descriptor
anonOf_Always(fd) == MAP_ANONYMOUS

\* Builder::map, the anon match
anonOf(fd) == IF fd = -1 THEN MAP_ANONYMOUS ELSE {}

\* Builder::map building the Map from the address it asked for
map_AtHint(k, b, p) ==
    LET huge  == hugeOf(b.huge)
        place == placeOf(b.addr)
        flags == kind(b.kind) \cup place.fixed \cup anonOf(b.fd) \cup huge.bits
        call  == Call("mmap", place.addr, b.size, perms(p), flags, b.fd, b.offset,
                      AllMapped(k, place.addr, b.size))
    IN  IF ~huge.ok \/ ~place.ok
        THEN {[res |-> "err", map |-> b.prev, err |-> "InvalidInput",
               eff |-> Effect(k)]}
        ELSE {IF o.ret = MAP_FAILED
              THEN [res |-> "err", map |-> b.prev, err |-> "OS",
                    eff |-> [os |-> o.os, calls |-> <<call>>]]
              ELSE [res |-> "ok", map |-> Map(place.addr, b.size, p.tag, b.kind),
                    err |-> "-",
                    eff |-> forget([os |-> o.os, calls |-> <<call>>], b.prev)]
              : o \in mmap(k, place.addr, b.size, perms(p), flags, b.fd, b.offset)}

\* Builder::map with the mmap call ahead of the two checks
map_CallsFirst(k, b, p) ==
    LET huge  == hugeOf(b.huge)
        place == placeOf(b.addr)
        flags == kind(b.kind) \cup place.fixed \cup anonOf(b.fd) \cup huge.bits
        call  == Call("mmap", place.addr, b.size, perms(p), flags, b.fd, b.offset,
                      AllMapped(k, place.addr, b.size))
    IN  IF ~huge.ok \/ ~place.ok
        THEN {[res |-> "err", map |-> b.prev, err |-> "InvalidInput",
               eff |-> [os |-> k, calls |-> <<call>>]]}
        ELSE {IF o.ret = MAP_FAILED
              THEN [res |-> "err", map |-> b.prev, err |-> "OS",
                    eff |-> [os |-> o.os, calls |-> <<call>>]]
              ELSE [res |-> "ok", map |-> Map(o.ret, b.size, p.tag, b.kind),
                    err |-> "-",
                    eff |-> forget([os |-> o.os, calls |-> <<call>>], b.prev)]
              : o \in mmap(k, place.addr, b.size, perms(p), flags, b.fd, b.offset)}

\* Builder::map whose failure branches let self.0.prev.prev.prev go out of scope
map_DropsPrev(k, b, p) ==
    LET huge  == hugeOf(b.huge)
        place == placeOf(b.addr)
        flags == kind(b.kind) \cup place.fixed \cup anonOf(b.fd) \cup huge.bits
        call  == Call("mmap", place.addr, b.size, perms(p), flags, b.fd, b.offset,
                      AllMapped(k, place.addr, b.size))
    IN  IF ~huge.ok \/ ~place.ok
        THEN {[res |-> "err", map |-> Unit, err |-> "InvalidInput",
               eff |-> drop(Effect(k), b.prev)]}
        ELSE {IF o.ret = MAP_FAILED
              THEN [res |-> "err", map |-> Unit, err |-> "OS",
                    eff |-> drop([os |-> o.os, calls |-> <<call>>], b.prev)]
              ELSE [res |-> "ok", map |-> Map(o.ret, b.size, p.tag, b.kind),
                    err |-> "-",
                    eff |-> forget([os |-> o.os, calls |-> <<call>>], b.prev)]
              : o \in mmap(k, place.addr, b.size, perms(p), flags, b.fd, b.offset)}

\* Builder::map: every result.  map is the new Map on success and the
\* payload self.0.prev.prev.prev on failure.
map(k, b, p) ==
    LET huge  == hugeOf(b.huge)
        place == placeOf(b.addr)
        flags == kind(b.kind) \cup place.fixed \cup anonOf(b.fd) \cup huge.bits
        call  == Call("mmap", place.addr, b.size, perms(p), flags, b.fd, b.offset,
                      AllMapped(k, place.addr, b.size))
    IN  IF ~huge.ok \/ ~place.ok
        THEN {[res |-> "err", map |-> b.prev, err |-> "InvalidInput",
               eff |-> Effect(k)]}
        ELSE {IF o.ret = MAP_FAILED
              THEN [res |-> "err", map |-> b.prev, err |-> "OS",
                    eff |-> [os |-> o.os, calls |-> <<call>>]]
              ELSE [res |-> "ok", map |-> Map(o.ret, b.size, p.tag, b.kind),
                    err |-> "-",
                    eff |-> forget([os |-> o.os, calls |-> <<call>>], b.prev)]
              : o \in mmap(k, place.addr, b.size, perms(p), flags, b.fd, b.offset)}

\* Map::load(path, kind, perms): every result.  File::open and metadata fail
\* with the OS error, a length that does not fit usize gives InvalidData,
\* and the rest is Map::bytes(size).anywhere().from(&mut file, 0)
\* .with_kind(kind) finalized with perms.  fd is the descriptor open returns.
load(k, file, fd, kd, p) ==
    LET b == [NoBuilder EXCEPT !.stage = "Source", !.size = file.len,
                               !.addr = NoAddress, !.fd = fd, !.offset = 0,
                               !.huge = -1, !.kind = kd]
    IN  IF ~file.found
        THEN {[res |-> "err", map |-> Unit, err |-> "OS", eff |-> Effect(k),
               b |-> NoBuilder]}
        ELSE IF file.len \notin Word
        THEN {[res |-> "err", map |-> Unit, err |-> "InvalidData",
               eff |-> Effect(k), b |-> NoBuilder]}
        ELSE {[res |-> o.res, map |-> o.map, err |-> o.err, eff |-> o.eff,
               b |-> b] : o \in map(k, b, p)}

\* ------------------------------------------------------------- the caller
\* The caller is one thread.  It finishes or drops the Builder it started
\* before its next call on a Map, and it disposes of an Error before its next
\* call; calls on different values commute, so no result is lost by this.
One(m)   == IF m = Unit THEN EmptyBag ELSE SetToBag({m})
Held     == BagToSet(maps)
\* every live Map: in a variable, carried by the Builder, carried by the Error
Live     == maps (+) One(bld.prev) (+) One(error.map)
Room     == BagCardinality(Live) < MaxMaps
RoomBuild == BagCardinality(Live) < MaxMaps - 1
Running  == last.res # "panic"
Ready    == Running /\ ~error.some
Idling   == Ready /\ bld.stage = "None"

Init ==
    /\ maps = EmptyBag
    /\ bld = NoBuilder
    /\ error = NoError
    /\ os = [p \in Pages |-> FreePage]
    /\ last = Idle
    /\ ontoUsed = FALSE

\* Map::bytes(size)
Bytes(size) ==
    /\ Idling
    /\ bld' = [NoBuilder EXCEPT !.stage = "Size", !.size = size]
    /\ last' = Idle
    /\ UNCHANGED <<maps, error, os, ontoUsed>>

\* Builder<Size<M>>::anywhere / at / near / onto
Place(tag, a) ==
    /\ Ready /\ bld.stage = "Size"
    /\ bld' = [bld EXCEPT !.stage = "Destination", !.addr = [tag |-> tag, a |-> a]]
    /\ ontoUsed' = (ontoUsed \/ tag = "Onto")
    /\ UNCHANGED <<maps, error, os, last>>

Anywhere == Place("None", 0)
At(a)    == Place("At", a)
Near(a)  == Place("Near", a)
Onto(a)  == Place("Onto", a)

\* Builder<Destination<M>>::anonymously
Anonymously ==
    /\ Ready /\ bld.stage = "Destination"
    /\ bld' = [bld EXCEPT !.stage = "Source", !.kind = "Private", !.huge = -1,
                          !.offset = 0, !.fd = -1]
    /\ UNCHANGED <<maps, error, os, last, ontoUsed>>

\* Builder<Destination<M>>::from(file, offset)
From(src) ==
    /\ Ready /\ bld.stage = "Destination"
    /\ bld' = [bld EXCEPT !.stage = "Source", !.kind = "Private", !.huge = -1,
                          !.offset = src.offset, !.fd = src.fd]
    /\ UNCHANGED <<maps, error, os, last, ontoUsed>>

\* Builder<Source<M, K>>::with_huge_pages(pow)
WithHugePages(pow) ==
    /\ Ready /\ bld.stage = "Source"
    /\ bld' = [bld EXCEPT !.huge = pow]
    /\ UNCHANGED <<maps, error, os, last, ontoUsed>>

\* Builder<Source<M, K>>::with_kind(kind)
WithKind(kd) ==
    /\ Ready /\ bld.stage = "Source"
    /\ bld' = [bld EXCEPT !.kind = kd]
    /\ UNCHANGED <<maps, error, os, last, ontoUsed>>

\* Builder<Source<M, K>>::map(perms): the finalize step
Finalize(p) ==
    /\ Ready /\ bld.stage = "Source"
    /\ \E o \in map(os, bld, p) :
          /\ os' = o.eff.os
          /\ last' = [Last("map", bld.prev, bld.addr.a, o.res,
                           o.map, Unit, o.err, o.eff.calls)
                        EXCEPT !.b = bld, !.perm = p.tag]
          /\ IF o.res = "ok"
             THEN /\ bld.prev = Unit => Room
                  /\ maps' = maps (+) One(o.map)
                  /\ error' = NoError
             ELSE /\ maps' = maps
                  /\ error' = [some |-> TRUE, map |-> o.map, err |-> o.err]
    /\ bld' = NoBuilder
    /\ UNCHANGED ontoUsed

\* Map::load(path, kind, perms)
Load(file, kd, p) ==
    /\ Idling
    /\ \E o \in load(os, file, 3, kd, p) :
          /\ os' = o.eff.os
          /\ last' = [Last("load", Unit, file.len, o.res, o.map, Unit, o.err,
                           o.eff.calls)
                        EXCEPT !.b = o.b, !.perm = p.tag]
          /\ IF o.res = "ok"
             THEN /\ Room
                  /\ maps' = maps (+) One(o.map)
                  /\ error' = NoError
             ELSE /\ maps' = maps
                  /\ error' = [some |-> TRUE, map |-> o.map, err |-> o.err]
    /\ UNCHANGED <<bld, ontoUsed>>

\* a Builder going out of scope drops the payload it carries
DropBuilder ==
    /\ Ready /\ bld.stage # "None"
    /\ LET e == drop(Effect(os), bld.prev)
       IN  /\ os' = e.os
           /\ last' = Last("drop_builder", bld.prev, 0, "-", Unit, Unit, "-", e.calls)
    /\ bld' = NoBuilder
    /\ UNCHANGED <<maps, error, ontoUsed>>

\* Map::remap
Remap(self) ==
    /\ Idling /\ self \in Held
    /\ bld' = remap(self)
    /\ maps' = maps (-) One(self)
    /\ last' = Idle
    /\ UNCHANGED <<error, os, ontoUsed>>

\* Map::reprotect(perms)
Reprotect(self, p) ==
    /\ Idling /\ self \in Held
    /\ \E o \in reprotect(os, self, p) :
          /\ os' = o.eff.os
          /\ last' = [Last("reprotect", self, perms(p), o.res,
                           o.map, Unit, o.err, o.eff.calls)
                        EXCEPT !.perm = p.tag]
          /\ IF o.res = "ok"
             THEN /\ maps' = (maps (-) One(self)) (+) One(o.map)
                  /\ error' = NoError
             ELSE /\ maps' = maps (-) One(self)
                  /\ error' = [some |-> TRUE, map |-> o.map, err |-> o.err]
    /\ UNCHANGED <<bld, ontoUsed>>

\* the caller's handling of a result of split or split_at
SplitResult(op, self, arg, o) ==
    /\ os' = o.eff.os
    /\ last' = Last(op, self, arg, o.res, o.l, o.r, o.err, o.eff.calls)
    /\ CASE o.res = "ok" ->
              /\ Room
              /\ maps' = (maps (-) One(self)) (+) One(o.l) (+) One(o.r)
              /\ error' = NoError
         [] o.res = "err" ->
              /\ maps' = maps (-) One(self)
              /\ error' = [some |-> TRUE, map |-> o.l, err |-> o.err]
         [] o.res = "panic" ->
              /\ maps' = maps (-) One(self)
              /\ error' = NoError
    /\ UNCHANGED <<bld, ontoUsed>>

\* Map::split(offset)
Split(self, offset) ==
    /\ Idling /\ self \in Held
    /\ \E o \in split(os, self, offset) : SplitResult("split", self, offset, o)

\* Map::split_at(addr)
SplitAt(self, addr) ==
    /\ Idling /\ self \in Held
    /\ \E o \in split_at(os, self, addr) : SplitResult("split_at", self, addr, o)

\* Map<Unknown, K>::from(Map<T, K>), T: Known
IntoUnknown(value) ==
    /\ Idling /\ value \in Held /\ value.perms \in Known
    /\ LET o == from(os, value)
       IN  /\ os' = o.eff.os
           /\ maps' = (maps (-) One(value)) (+) One(o.map)
           /\ last' = Last("from_known", value, 0, "ok", o.map, Unit, "-",
                           o.eff.calls)
    /\ UNCHANGED <<bld, error, ontoUsed>>

\* a Map going out of scope
Drop(self) ==
    /\ Idling /\ self \in Held
    /\ LET e == drop(Effect(os), self)
       IN  /\ os' = e.os
           /\ last' = Last("drop", self, 0, "-", Unit, Unit, "-", e.calls)
    /\ maps' = maps (-) One(self)
    /\ UNCHANGED <<bld, error, ontoUsed>>

\* the caller moves the payload out of the Error (its field `map` is public)
TakeMap ==
    /\ Running /\ error.some /\ error.map # Unit
    /\ maps' = maps (+) One(error.map)
    /\ error' = NoError
    /\ last' = Idle
    /\ UNCHANGED <<bld, os, ontoUsed>>

\* From<Error<M>> for std::io::Error
IntoIoError ==
    /\ Running /\ error.some
    /\ LET o == io_error_from(os, error)
       IN  /\ os' = o.eff.os
           /\ last' = Last("into_io_error", error.map, 0, "-", Unit, Unit,
                           o.err, o.eff.calls)
    /\ error' = NoError
    /\ UNCHANGED <<maps, bld, ontoUsed>>

\* The safe calls that create, change and release a mapping of anonymous
\* private memory.  The builder calls from, with_kind and with_huge_pages
\* choose what is mapped, not where or who owns it; SpecBuild has them.
Next ==
    \/ \E size \in SizeInputs : Bytes(size)
    \/ Anywhere
    \/ \E a \in AddrInputs : At(a)
    \/ \E a \in AddrInputs : Near(a)
    \/ Anonymously
    \/ \E p \in PermInputs : Finalize(p)
    \/ DropBuilder
    \/ \E self \in Held : Remap(self)
    \/ \E self \in Held, p \in PermInputs : Reprotect(self, p)
    \/ \E self \in Held, offset \in SplitOffsets : Split(self, offset)
    \/ \E self \in Held, addr \in SplitAddrs : SplitAt(self, addr)
    \/ \E value \in Held : IntoUnknown(value)
    \/ \E self \in Held : Drop(self)
    \/ TakeMap
    \/ IntoIoError

Spec == Init /\ [][Next]_vars

\* The calls that create a mapping, replace a Map by another and release it,
\* together with the unsafe fn Builder::onto at an address other than 0
NextUnsafe ==
    \/ \E size \in SizeInputs : Bytes(size)
    \/ Anywhere
    \/ \E a \in AddrInputs \ {0} : Onto(a)
    \/ Anonymously
    \/ \E p \in PermInputs : Finalize(p)
    \/ DropBuilder
    \/ \E self \in Held : Remap(self)
    \/ \E self \in Held, p \in PermInputs : Reprotect(self, p)
    \/ \E self \in Held, offset \in UnsafeOffsets : Split(self, offset)
    \/ \E value \in Held : IntoUnknown(value)
    \/ \E self \in Held : Drop(self)
    \/ TakeMap
    \/ IntoIoError

SpecUnsafe == Init /\ [][NextUnsafe]_vars

\* Every call of the Builder, on a fresh Builder and on one that Map::remap
\* started, for a caller that keeps one Map fewer
NextBuild ==
    \/ \E size \in SizeInputs : Bytes(size) /\ RoomBuild
    \/ Anywhere
    \/ \E a \in AddrInputs : At(a)
    \/ \E a \in AddrInputs : Near(a)
    \/ \E a \in AddrInputs : Onto(a)
    \/ Anonymously
    \/ \E src \in SourceInputs : From(src)
    \/ \E pow \in HugeInputs : WithHugePages(pow)
    \/ \E kd \in Kinds : WithKind(kd)
    \/ \E p \in PermInputs : Finalize(p)
    \/ DropBuilder
    \/ \E self \in Held : Remap(self)
    \/ \E self \in Held : Drop(self)
    \/ TakeMap
    \/ IntoIoError

SpecBuild == Init /\ [][NextBuild]_vars

\* Map::load and the calls that change the type of a Map or release it
NextLoad ==
    \/ \E file \in FileInputs, kd \in Kinds, p \in LoadPerms : Load(file, kd, p)
    \/ \E self \in Held, p \in PermInputs : Reprotect(self, p)
    \/ \E value \in Held : IntoUnknown(value)
    \/ \E self \in Held : Drop(self)
    \/ IntoIoError

SpecLoad == Init /\ [][NextLoad]_vars

\* ------------------------------------------------------------- properties
\* byte ranges [addr, addr + size) of two Maps share a byte
Overlap(m, n) == m.addr < n.addr + n.size /\ n.addr < m.addr + m.size

LiveMaps    == BagToSet(Live)
NonEmpty    == {m \in LiveMaps : m.size > 0}
LastCalls   == {last.calls[j] : j \in 1 .. Len(last.calls)}
Invoked(f)  == \E c \in LastCalls : c.fn = f
Aligned(a)  == a % PageSize = 0

\* Deref / AsRef<[u8]> exist for K: Safe, T: Readable
Deref(m)    == m.kind \in Safe /\ m.perms \in Readable
\* DerefMut with the bound T: Writeable
DerefMut_WriteOnly(m) == m.kind \in Safe /\ m.perms \in Writeable
\* DerefMut / AsMut<[u8]> exist for K: Safe, T: Readable + Writeable
DerefMut(m) == m.kind \in Safe /\ m.perms \in Readable /\ m.perms \in Writeable

\* the call just made was split(offset), or the split_at(addr) that computes
\* the same offset from an address at or after the start of the Map
SplitAtOffset(offset) ==
    \/ last.op = "split" /\ last.arg = offset
    \/ last.op = "split_at" /\ last.arg = last.self.addr + offset

\* the Error the caller holds carries the Map the call consumed, and no
\* primitive was invoked
GivenBack ==
    /\ last.res = "err"
    /\ error.some /\ error.map = last.self /\ error.map \in LiveMaps
    /\ last.calls = NoCall

\* C1: as long as Builder::onto has not been called, no two live Maps of
\* length > 0 claim a common byte: a Map value of length > 0 is held once, and
\* two different ones have disjoint ranges.
C1_NoOverlap ==
    ~ontoUsed =>
        \A m \in NonEmpty :
            /\ CopiesIn(m, Live) = 1
            /\ \A n \in NonEmpty : n # m => ~Overlap(m, n)

\* two live Maps of length > 0 that a split produced, one of them since
\* moved into a remap Builder
C1_Witness ==
    /\ ~ontoUsed
    /\ Cardinality(NonEmpty) = 2
    /\ bld.prev \in NonEmpty
    /\ \E m \in NonEmpty : m.addr = bld.prev.addr + bld.prev.size

\* the call just made invoked munmap on a range with a page no longer mapped
StaleRelease == \E c \in LastCalls : c.fn = "munmap" /\ ~c.found

\* C2 as stated, for any sequence of calls: munmap is never invoked on a
\* range that has already been released, a call invokes it at most once, and
\* a call that returns a Map does not invoke it.
C2_NeverReleasedTwice ==
    /\ ~StaleRelease
    /\ Cardinality({j \in 1 .. Len(last.calls) : last.calls[j].fn = "munmap"}) <= 1
    /\ last.res = "ok" => ~Invoked("munmap")

\* C2, amended: as long as Builder::onto has not been called, munmap is never
\* invoked on a range that has already been released, a call invokes it at
\* most once, and a call that returns a Map does not invoke it.
C2_NoDoubleRelease == ~ontoUsed => C2_NeverReleasedTwice

\* a Map that came out of a conversion, next to another piece of a split, has
\* just been released: munmap found every page of its range mapped
C2_Witness ==
    /\ ~ontoUsed
    /\ last.op = "drop" /\ Invoked("munmap") /\ ~StaleRelease
    /\ last.self.perms = "Unknown"
    /\ \E m \in NonEmpty : m.addr = last.self.addr + last.self.size

\* C3: once no Map is live (none in a variable, none carried by a Builder or
\* by an Error), no page is mapped.
C3_NoLeak ==
    BagCardinality(Live) = 0 => \A p \in Pages : ~os[p]

\* the last live Map has just been released by a munmap call
C3_Witness ==
    /\ BagCardinality(Live) = 0
    /\ last.op \in {"drop", "drop_builder", "into_io_error"}
    /\ Invoked("munmap")

\* what C4 promises of the call just made
FullSplitResult ==
    /\ last.res = "ok"
    /\ last.l.addr = last.self.addr /\ last.l.size = last.self.size
    /\ last.r.size = 0
    /\ last.r.addr = last.self.addr + last.self.size

\* C4 as stated: a split of a Map of length L > 0 at offset L (split_at at
\* addr + L) succeeds with a left piece of length L and an empty right piece
\* at addr + L.
C4_FullSplitAlways ==
    (last.self.size > 0 /\ SplitAtOffset(last.self.size)) => FullSplitResult

\* C4, amended: it does so when addr + L is a multiple of the page size.
C4_FullSplit ==
    (/\ last.self.size > 0
     /\ SplitAtOffset(last.self.size)
     /\ Aligned(last.self.addr + last.self.size)) => FullSplitResult

C4_Witness ==
    /\ last.op = "split" /\ last.self.size > 0 /\ last.arg = last.self.size
    /\ last.res = "ok" /\ last.r \in LiveMaps /\ last.l \in LiveMaps

\* C5: a split of a Map of length L > 0 at offset 0 (split_at at addr)
\* succeeds with an empty left piece and a right piece of length L, both at
\* addr.
C5_ZeroSplit ==
    (last.self.size > 0 /\ SplitAtOffset(0)) =>
        /\ last.res = "ok"
        /\ last.l.addr = last.self.addr /\ last.l.size = 0
        /\ last.r.addr = last.self.addr /\ last.r.size = last.self.size

C5_Witness ==
    /\ last.op = "split_at" /\ last.self.size > 0 /\ last.arg = last.self.addr
    /\ last.res = "ok" /\ last.l \in LiveMaps /\ last.r \in LiveMaps

\* C6: split(offset) with offset <= L and addr + offset a multiple of the
\* page size succeeds; left is [addr, addr + offset), right is
\* [addr + offset, addr + L): adjacent, disjoint, lengths summing to L.
C6_SplitPartition ==
    (/\ last.op = "split"
     /\ last.arg <= last.self.size
     /\ Aligned(last.self.addr + last.arg)) =>
        /\ last.res = "ok"
        /\ last.l.addr = last.self.addr /\ last.l.size = last.arg
        /\ last.r.addr = last.self.addr + last.arg
        /\ last.r.addr + last.r.size = last.self.addr + last.self.size
        /\ last.l.addr + last.l.size = last.r.addr
        /\ last.l.size + last.r.size = last.self.size
        /\ ~Overlap(last.l, last.r)

C6_Witness ==
    /\ last.op = "split" /\ last.res = "ok"
    /\ 0 < last.arg /\ last.arg < last.self.size
    /\ last.l \in NonEmpty /\ last.r \in NonEmpty

\* C7: split(offset) with offset not a multiple of the page size fails with
\* EINVAL, and the Error carries the Map unchanged, live and not released.
C7_UnalignedFails ==
    (last.op = "split" /\ ~Aligned(last.arg)) =>
        (last.err = "EINVAL" /\ GivenBack)

\* C8: split(offset) with offset > L fails with EINVAL and gives the Map
\* back, for every offset of the word.
C8_BeyondLengthFails ==
    (last.op = "split" /\ last.arg > last.self.size) =>
        (last.err = "EINVAL" /\ GivenBack)

\* C9: a finalize with placement at, near or onto and address 0 fails with
\* InvalidInput, and mmap is not invoked.
C9_ZeroAddressRejected ==
    (/\ last.op = "map"
     /\ last.b.addr.tag \in {"At", "Near", "Onto"}
     /\ last.b.addr.a = 0) =>
        /\ last.res = "err" /\ last.err = "InvalidInput"
        /\ last.calls = NoCall
        /\ error.some /\ error.map = last.self

C9_Witness ==
    /\ last.op = "map" /\ last.b.addr = [tag |-> "Onto", a |-> 0]
    /\ last.res = "err" /\ ~Invoked("mmap")

\* C10: a successful reprotect returns a Map with the address, length and
\* kind of the original and the capability asked for; it invokes mprotect
\* only; slice access to the result is what the new capability grants.
C10_Reprotect ==
    (last.op = "reprotect" /\ last.res = "ok") =>
        /\ last.l.addr = last.self.addr /\ last.l.size = last.self.size
        /\ last.l.kind = last.self.kind
        /\ last.l.perms = last.perm
        /\ Len(last.calls) = 1 /\ last.calls[1].fn = "mprotect"
        /\ last.calls[1].addr = last.self.addr
        /\ last.calls[1].size = last.self.size
        /\ Deref(last.l) <=> (last.perm \in Readable /\ last.self.kind \in Safe)
        /\ DerefMut(last.l) <=> (/\ last.perm \in Readable \cap Writeable
                                 /\ last.self.kind \in Safe)

C10_Witness ==
    /\ last.op = "reprotect" /\ last.res = "ok"
    /\ last.self.perms = "Unknown" /\ last.perm = "ReadWrite"
    /\ ~Deref(last.self) /\ DerefMut(last.l) /\ last.l \in NonEmpty

\* C11: a reprotect whose mprotect fails returns an Error with the OS error
\* and the Map it consumed: same address, length, type and kind, live, not
\* released, its pages still mapped.
C11_ReprotectFailure ==
    (last.op = "reprotect" /\ last.res = "err") =>
        /\ error.some /\ error.err = "OS"
        /\ error.map = last.self /\ error.map \in LiveMaps
        /\ Len(last.calls) = 1 /\ last.calls[1].fn = "mprotect"
        /\ AllMapped(os, last.self.addr, last.self.size)

C11_Witness ==
    /\ last.op = "reprotect" /\ last.res = "err"
    /\ last.self.perms = "ReadWrite" /\ last.perm = "Unknown"
    /\ error.map \in NonEmpty

\* the call just made was the finalize of a Builder that Map::remap started
RemapFinalize == last.op = "map" /\ last.b.prev # Unit

\* C12: a finalize started from remap that fails, at the huge-page check
\* (no primitive invoked) or because mmap failed, returns an Error with the
\* Map that remap consumed: same address and length, live, and munmap has not
\* been invoked.
C12_RemapFailure ==
    (RemapFinalize /\ last.res = "err") =>
        /\ error.some
        /\ error.map = last.b.prev /\ error.map \in LiveMaps
        /\ ~Invoked("munmap")
        /\ last.err = "InvalidInput" => last.calls = NoCall
        /\ last.err = "OS" => (Len(last.calls) = 1 /\ last.calls[1].fn = "mmap")
        /\ ~ontoUsed => AllMapped(os, error.map.addr, error.map.size)

\* a remap given a huge-page hint outside the mask has failed
C12_Witness ==
    /\ RemapFinalize /\ last.res = "err" /\ last.err = "InvalidInput"
    /\ ~hugeOf(last.b.huge).ok
    /\ error.map \in NonEmpty /\ ~ontoUsed

\* C13: a Builder that carries a Map asks for Address::Onto at the address of
\* that Map with its length.  A successful finalize of it invokes mmap once,
\* with MAP_FIXED, that address and that length, and no munmap; the Map
\* returned has that address and length and, unless Builder::onto has been
\* called, it is held once and overlaps no other live Map.
C13_RemapInPlace ==
    /\ bld.prev # Unit =>
          /\ bld.addr = [tag |-> "Onto", a |-> bld.prev.addr]
          /\ bld.size = bld.prev.size
    /\ (RemapFinalize /\ last.res = "ok") =>
          /\ last.b.addr = [tag |-> "Onto", a |-> last.b.prev.addr]
          /\ Len(last.calls) = 1 /\ last.calls[1].fn = "mmap"
          /\ MAP_FIXED \subseteq last.calls[1].flags
          /\ last.calls[1].addr = last.b.prev.addr
          /\ last.calls[1].size = last.b.prev.size
          /\ last.l.addr = last.b.prev.addr /\ last.l.size = last.b.prev.size
          /\ ~ontoUsed =>
                /\ CopiesIn(last.l, Live) = 1
                /\ \A n \in NonEmpty : n # last.l => ~Overlap(last.l, n)
                /\ AllMapped(os, last.l.addr, last.l.size)

\* a Map has been remapped with another type while a second Map is live
C13_Witness ==
    /\ RemapFinalize /\ last.res = "ok" /\ ~ontoUsed
    /\ last.b.prev.perms # last.l.perms
    /\ last.l \in NonEmpty /\ Cardinality(NonEmpty) = 2

\* the call just made let a value go out of scope: a Map, the payload of a
\* Builder, or the payload of an Error
Released == last.op \in {"drop", "drop_builder", "into_io_error"}

\* C14: the release of a Map invokes munmap if and only if its length is > 0,
\* and then once, on the range of the Map; the release of a Map of length 0
\* invokes nothing.
C14_ReleaseIffNonEmpty ==
    Released =>
        /\ Invoked("munmap") <=> last.self.size > 0
        /\ last.self.size = 0 => last.calls = NoCall
        /\ last.self.size > 0 =>
              /\ Len(last.calls) = 1
              /\ last.calls[1].addr = last.self.addr
              /\ last.calls[1].size = last.self.size

\* the empty piece of a split at a boundary has been dropped
C14_Witness ==
    /\ last.op = "drop" /\ last.self.size = 0 /\ last.self.perms # "()"
    /\ last.self.addr > 0 /\ ~Invoked("munmap")
    /\ \E m \in NonEmpty : m.addr = last.self.addr \/ m.addr + m.size = last.self.addr

\* C15: of every live Map, &[u8] access exists only if its type is Readable,
\* &mut [u8] access only if its type is Readable and Writeable, and a Map of
\* type Unknown has neither.
C15_SliceAccess ==
    \A m \in LiveMaps :
        /\ Deref(m) => m.perms \in Readable
        /\ DerefMut(m) => (m.perms \in Readable /\ m.perms \in Writeable)
        /\ m.perms = "Unknown" => (~Deref(m) /\ ~DerefMut(m))

\* a private Map that is Writeable and not Readable is live, and so is a Map
\* of type Unknown
C15_Witness ==
    /\ \E m \in NonEmpty : m.perms = "Write" /\ m.kind = "Private"
    /\ \E m \in NonEmpty : m.perms = "Unknown"

\* m with the kind Private
AsPrivate(m) == [m EXCEPT !.kind = "Private"]

LoadedReadOnly ==
    last.op = "load" /\ last.b.stage = "Source" /\ last.perm = "Read"

\* the one mmap call of a load: N bytes of the file from offset 0, PROT_READ,
\* no address and no fixed placement
LoadRequest(c) ==
    /\ c.fn = "mmap" /\ c.size = last.arg /\ c.prot = PROT_READ
    /\ c.fd = last.b.fd /\ c.fd # -1 /\ c.offset = 0
    /\ c.addr = 0
    /\ c.flags \cap (MAP_FIXED \cup MAP_FIXED_NOREPLACE \cup MAP_ANONYMOUS) = {}

\* mmap failed on a request it accepts (length > 0): the kernel lacked address
\* space or another resource, which no caller can exclude
OutOfResources ==
    /\ last.res = "err" /\ last.err = "OS"
    /\ last.calls[1].size > 0

\* C17: a load of a file of N bytes with perms::Read, for every N that fits
\* usize, N = 0 included, invokes mmap once for N bytes of the file from
\* offset 0 with no placement constraint, and returns a Map<Read, K> of
\* length N.
C17_LoadWholeFile ==
    LoadedReadOnly =>
        /\ Len(last.calls) = 1 /\ LoadRequest(last.calls[1])
        /\ \/ OutOfResources
           \/ /\ last.res = "ok"
              /\ last.l.size = last.arg /\ last.l.perms = "Read"
              /\ last.l.kind = last.b.kind
              /\ last.l \in LiveMaps

\* C18: finalize, reprotect, split, split_at and load return: an Ok with a
\* Map (two for a split) or an Err with an Error.  None panics, whatever its
\* input, a split offset with addr + offset past the end of the word included.
C18_NoAbort ==
    last.op \in {"map", "reprotect", "split", "split_at", "load"} =>
        /\ last.res \in {"ok", "err"}
        /\ last.res = "err" <=> error.some

\* a step that constructs a stage of the Builder: bytes, anywhere, at, near,
\* onto, anonymously, from, with_huge_pages, with_kind, remap
StageStep == bld' # bld /\ bld'.stage # "None"

\* what a step may do with mmap: a stage constructor invokes no primitive and
\* leaves the page table alone; a call that invokes mmap is a finalize, it
\* invokes it once and nothing else, and the huge-page match and the Address
\* match of its Builder have both passed
MmapDiscipline ==
    /\ StageStep => (os' = os /\ last'.calls = NoCall)
    /\ (\E j \in 1 .. Len(last'.calls) : last'.calls[j].fn = "mmap") =>
          /\ last'.op = "map"
          /\ Len(last'.calls) = 1
          /\ hugeOf(last'.b.huge).ok
          /\ placeOf(last'.b.addr).ok

\* C19: mmap is invoked by the finalize step only, at most once per finalize,
\* and only after the huge-page check and the placement check have passed;
\* the constructors of the Size, Destination and Source stages invoke no OS
\* primitive.
C19_MmapOnlyAtFinalize == [][MmapDiscipline]_vars

\* a finalize with a huge-page hint and a fixed address has invoked mmap
C19_Witness ==
    /\ last.op = "map" /\ Invoked("mmap") /\ last.res = "ok"
    /\ last.b.huge # -1 /\ last.b.addr.tag = "At" /\ last.b.fd # -1

\* the call just made was a finalize of a Builder given with_huge_pages(pow)
HugeFinalize == last.op = "map" /\ last.b.huge # -1

\* the finalize failed with InvalidInput, invoked nothing, and the Error
\* carries what the Builder carried
Rejected ==
    /\ last.res = "err" /\ last.err = "InvalidInput"
    /\ last.calls = NoCall
    /\ error.some /\ error.map = last.b.prev

\* the flags of the mmap call carry MAP_HUGETLB, and in the six bits from
\* MAP_HUGE_SHIFT up the binary digits of pow
HugeEncoded(pow) ==
    /\ Len(last.calls) = 1 /\ last.calls[1].fn = "mmap"
    /\ MAP_HUGETLB \subseteq last.calls[1].flags
    /\ \A i \in 0 .. 5 :
          (MAP_HUGE_SHIFT + i) \in last.calls[1].flags <=> (pow \div Pow2(i)) % 2 = 1
    /\ pow = 0 => last.calls[1].flags \cap (MAP_HUGE_SHIFT .. 31) = {}

\* what C20 says of the call just made
HugeHintRule ==
    /\ Rejected <=> last.b.huge >= 64
    /\ last.b.huge < 64 => HugeEncoded(last.b.huge)

\* C20 as stated: a finalize with a huge-page hint pow fails with
\* InvalidInput, without mmap and with the prior ownership returned, exactly
\* when pow >= 64; otherwise the flags carry MAP_HUGETLB and pow in the size
\* field, no size bit for pow = 0.
C20_HugeHintAnyPlacement == HugeFinalize => HugeHintRule

\* C20, amended: it does so when the placement passes the Address match (it
\* is anywhere, or its address is not 0).
C20_HugeHint ==
    (HugeFinalize /\ (last.b.addr.tag = "None" \/ last.b.addr.a # 0)) =>
        HugeHintRule

\* a finalize with the largest hint of the mask has returned a Map
C20_Witness ==
    /\ HugeFinalize /\ last.b.huge = 63 /\ last.res = "ok"
    /\ HugeEncoded(63) /\ last.l \in NonEmpty

\* the step was a call that invoked mmap
MmapStep == \E j \in 1 .. Len(last'.calls) : last'.calls[j].fn = "mmap"

\* what a step does with the source: anonymously stores descriptor -1 and
\* offset 0, from stores the descriptor and the offset it is given, the other
\* calls of the Source stage keep both, and the mmap call of a finalize is
\* given both as the Builder holds them, with MAP_ANONYMOUS exactly for
\* descriptor -1
SourceDiscipline ==
    /\ Anonymously => (bld'.fd = -1 /\ bld'.offset = 0)
    /\ \A src \in SourceInputs :
          From(src) => (bld'.fd = src.fd /\ bld'.offset = src.offset)
    /\ (bld.stage = "Source" /\ bld'.stage = "Source") =>
          (bld'.fd = bld.fd /\ bld'.offset = bld.offset)
    /\ (MmapStep /\ last'.op = "map") =>
          /\ last'.b = bld
          /\ last'.calls[1].fd = bld.fd /\ last'.calls[1].offset = bld.offset
          /\ MAP_ANONYMOUS \subseteq last'.calls[1].flags <=> bld.fd = -1

\* C21: the mmap call carries MAP_ANONYMOUS if and only if the descriptor of
\* the source is -1; anonymously always gives descriptor -1 and offset 0, and
\* a source made by from passes the caller's descriptor and offset unchanged.
C21_AnonymousIffNoFile == [][SourceDiscipline]_vars

\* a file-backed finalize at a non-zero offset has returned a Map
C21_Witness ==
    /\ last.op = "map" /\ last.res = "ok" /\ Invoked("mmap")
    /\ last.b.fd = 3 /\ last.b.offset = PageSize
    /\ last.calls[1].fd = 3 /\ last.calls[1].offset = PageSize
    /\ MAP_ANONYMOUS \cap last.calls[1].flags = {}

\* the fixed-placement bits among the flags of a call
FixedBits(c) == c.flags \cap (MAP_FIXED \cup MAP_FIXED_NOREPLACE)

\* C22: the mmap call of a finalize is given, for Address::None, address 0
\* and no fixed flag; for At(a), a and MAP_FIXED_NOREPLACE; for Near(a), a and
\* no fixed flag; for Onto(a), a and MAP_FIXED, a # 0 in the three cases.
\* MAP_FIXED and MAP_FIXED_NOREPLACE are never both set.
C22_PlacementTranslation ==
    (last.op = "map" /\ Invoked("mmap")) =>
        LET c  == last.calls[1]
            ad == last.b.addr
        IN  /\ ad.tag = "None" => (c.addr = 0 /\ FixedBits(c) = {})
            /\ ad.tag # "None" => (ad.a # 0 /\ c.addr = ad.a)
            /\ ad.tag = "At"   => FixedBits(c) = MAP_FIXED_NOREPLACE
            /\ ad.tag = "Near" => FixedBits(c) = {}
            /\ ad.tag = "Onto" => FixedBits(c) = MAP_FIXED
            /\ ~(MAP_FIXED \cup MAP_FIXED_NOREPLACE \subseteq c.flags)

\* a finalize placed with at(a), a # 0, has returned a Map at a
C22_Witness ==
    /\ last.op = "map" /\ last.res = "ok" /\ Invoked("mmap")
    /\ last.b.addr.tag = "At" /\ last.b.addr.a # 0
    /\ MAP_FIXED_NOREPLACE \subseteq last.calls[1].flags
    /\ last.l.addr = last.b.addr.a

\* a step that is a successful finalize: its Map has the length, and the kind
\* of the Builder, the type of the selector, and as address a value that
\* mmap returns for the call made, with the page table mmap leaves
FinalizeResult ==
    (bld.stage = "Source" /\ last'.op = "map" /\ last'.res = "ok") =>
        LET c == last'.calls[1]
        IN  /\ last'.l.size = bld.size /\ c.size = bld.size
            /\ last'.l.kind = bld.kind
            /\ last'.l.perms = last'.perm
            /\ \E o \in mmap(os, c.addr, c.size, c.prot, c.flags, c.fd, c.offset) :
                  /\ o.ret # MAP_FAILED
                  /\ last'.l.addr = o.ret
                  /\ os' = o.os
            /\ AllMapped(os', last'.l.addr, last'.l.size)

\* C23: a successful finalize returns a Map whose length is the length
\* requested, whose address is the address mmap returned, not the address
\* asked for, and whose type and kind are those chosen at the finalize.
C23_FinalizeResult == [][FinalizeResult]_vars

\* a finalize with the hint near(a) has returned a shared Map elsewhere
C23_Witness ==
    /\ last.op = "map" /\ last.res = "ok"
    /\ last.b.addr.tag = "Near" /\ last.l.addr # last.b.addr.a
    /\ last.l.kind = "Shared" /\ last.l.size = last.b.size
    /\ last.l \in NonEmpty

\* the step is a call of split_at; self and a are the Map and the address
SplitAtStep == Idling /\ last'.op = "split_at"

\* the result of the step is a result of split(self, offset) in the state
\* before it: the same Ok or Err, the same Maps, the same primitives invoked,
\* the same page table
SameAsSplit(offset) ==
    \E o \in split(os, last'.self, offset) :
        /\ o.res = last'.res /\ o.err = last'.err
        /\ o.l = last'.l /\ o.r = last'.r
        /\ o.eff.calls = last'.calls /\ o.eff.os = os'

\* split_at(a) is split(a - addr) for a >= addr and split(size) for a < addr
SplitAtRule ==
    SplitAtStep =>
        IF last'.arg >= last'.self.addr
        THEN SameAsSplit(last'.arg - last'.self.addr)
        ELSE SameAsSplit(last'.self.size)

\* the step returned the whole Map and an empty Map at its end
WholeAndEmpty ==
    /\ last'.res = "ok"
    /\ last'.l = last'.self
    /\ last'.r.addr = last'.self.addr + last'.self.size /\ last'.r.size = 0

SplitStep == Idling /\ last'.op \in {"split", "split_at"}

\* a split invokes no primitive and leaves the page table as it is, and the
\* Maps it returns have the type and the kind of the Map it was given
SplitIsPure ==
    SplitStep =>
        /\ last'.calls = NoCall
        /\ os' = os
        /\ last'.res = "ok" =>
              /\ last'.l.perms = last'.self.perms /\ last'.l.kind = last'.self.kind
              /\ last'.r.perms = last'.self.perms /\ last'.r.kind = last'.self.kind

\* C25: split and split_at invoke none of mmap, munmap and mprotect, whether
\* they succeed or not; the page table is unchanged by them, and both pieces
\* keep the type and the kind of the original.
C25_SplitIsPure == [][SplitIsPure]_vars

\* the step is a conversion of a Map of a known type into Map<Unknown, K>
FromStep == last'.op = "from_known"

\* the conversion keeps address, length and kind, invokes nothing and leaves
\* the page table as it is; the value given is held once less, the result once
\* more, and a result of length > 0 is the one live Map on its range
FromRule ==
    FromStep =>
        /\ last'.l = Map(last'.self.addr, last'.self.size, "Unknown",
                         last'.self.kind)
        /\ last'.calls = NoCall
        /\ os' = os
        /\ AllMapped(os', last'.l.addr, last'.l.size)
        /\ CopiesIn(last'.self, Live') = CopiesIn(last'.self, Live) - 1
        /\ CopiesIn(last'.l, Live') = CopiesIn(last'.l, Live) + 1
        /\ last'.l.size > 0 =>
              /\ CopiesIn(last'.l, Live') = 1
              /\ \A m \in BagToSet(Live') \ {last'.l} :
                     m.size > 0 => ~Overlap(m, last'.l)

\* C26: the conversion of a Map of a known type into a Map of the type Unknown
\* keeps address, length and kind and invokes no primitive; the Map given
\* releases nothing, and the result is the one owner of the range.
C26_FromKeepsOwnership == [][FromRule]_vars

C26_Witness ==
    /\ last.op = "from_known" /\ last.self.size > 0
    /\ last.self.perms \in Known /\ last.l.perms = "Unknown"
    /\ last.l \in Held /\ last.calls = NoCall
    /\ AllMapped(os, last.l.addr, last.l.size)

\* the step converts an Error that carries a Map into a std::io::Error
IoErrorStep == error.map # Unit /\ last'.op = "into_io_error"

\* the io::Error is the one the Error held; the Map the Error carried is gone,
\* by one munmap of its mapped range when its length is > 0 and by nothing
\* when its length is 0
IoErrorRule ==
    IoErrorStep =>
        /\ last'.err = error.err
        /\ last'.self = error.map
        /\ ~error'.some
        /\ CopiesIn(error.map, Live') = CopiesIn(error.map, Live) - 1
        /\ IF error.map.size > 0
           THEN /\ Len(last'.calls) = 1
                /\ last'.calls[1].fn = "munmap"
                /\ last'.calls[1].addr = error.map.addr
                /\ last'.calls[1].size = error.map.size
                /\ last'.calls[1].found
                /\ os' = munmap(os, error.map.addr, error.map.size)
           ELSE /\ last'.calls = NoCall
                /\ os' = os

\* C27: the conversion of an Error that carries a live Map into a
\* std::io::Error returns the io::Error unchanged and releases the Map once:
\* munmap is invoked once on its range if its length is > 0, and not at all if
\* its length is 0.
C27_IoErrorReleasesMap == [][IoErrorRule]_vars

\* the Error of a failed call carried a Map of length > 0, and the conversion
\* has unmapped it
C27_Witness ==
    /\ last.op = "into_io_error" /\ last.self.size > 0
    /\ last.err # "-" /\ ~error.some
    /\ Len(last.calls) = 1 /\ last.calls[1].fn = "munmap"
    /\ \A p \in PagesOf(last.self.addr, last.self.size) : os[p] = FreePage

\* split has returned Ok
SplitSucceeded == last.op = "split" /\ last.res = "ok"

\* C28: the address of every live Map is a multiple of the page size, whatever
\* calls of map, remap, reprotect, split and split_at came before; so a split
\* succeeds exactly when offset <= length and offset is a multiple of the page
\* size.
C28_AlignedBase ==
    /\ \A m \in LiveMaps : Aligned(m.addr)
    /\ last.op = "split" =>
          (SplitSucceeded <=> (last.arg <= last.self.size /\ Aligned(last.arg)))

\* the right piece of an earlier split, next to the left piece still held, was
\* split at an offset inside it that is not a multiple of the page size: the
\* split was refused and the piece came back
C28_Witness ==
    /\ last.op = "split" /\ last.res = "err"
    /\ last.arg > 0 /\ last.arg < last.self.size /\ ~Aligned(last.arg)
    /\ last.self.addr > 0 /\ Aligned(last.self.addr)
    /\ error.some /\ error.map = last.self
    /\ \E m \in Held : m.size > 0 /\ m.addr + m.size = last.self.addr

====
